---- MODULE Spec2Model ----
(***************************************************************************)
(* Fetch orchestration of fetch-github-titles: one aggregate count query,  *)
(* a parallel page-numbered REST fetch of issues/pull requests, a          *)
(* sequential cursor-paged GraphQL fetch of discussions, and the write     *)
(* phase.  Three script variants share the design:                         *)
(*   "functions"  src/fetch-issue-titles.js        (file output)           *)
(*   "classes"    src/unnamed/part_000 l.1-229     (file output)           *)
(*   "stdout"     src/unnamed/part_000 l.231-456   (standard output)       *)
(* An action is the code that runs between two suspension points (await).  *)
(***************************************************************************)
EXTENDS Integers, Sequences, FiniteSets, TLC

VARIABLES
    \* the invocation and the backing repository (fixed during a behaviour)
    variant,          \* which script is run
    argc,             \* positional arguments given (process.argv.length - 2)
    probeFails,       \* the aggregate count query is rejected by the provider
    counts,           \* the counts the provider reports to the count query
    repoIssues,       \* issues + pull requests the REST listing really holds
    repoDiscussions,  \* discussions the GraphQL listing really holds
    repoOverlap,      \* records a REST page repeats from the page before it
                      \* (the listing shifts while it is read)
    restFails,        \* the REST page numbers whose request is rejected
    cursorFailAt,     \* the n-th cursor request is rejected (0: none)
    \* the process
    run,              \* 1 for the first run, 2 for the run after it, ...
    pc,               \* position of the top-level code
    keyFileRead,      \* fs.readFileSync(keyFile) has run
    exitCode,         \* the argument of process.exit (0: not called)
    repoStats,        \* repoStats / itemCounts
    totalPages,       \* fetchIssueTitles: totalPages
    pending,          \* REST page requests in flight
    responses,        \* outcome per page number, as the requests settle
    issueTitles,      \* what fetchIssueTitles / RESTTitleFetcher.fetch returned
    hasNextPage,      \* fetchItemTitles: hasNextPage
    cursor,           \* fetchItemTitles: cursor
    page,             \* fetchItemTitles: page
    estPages,         \* fetchItemTitles: totalPages (progress estimate)
    itemTitles,       \* fetchItemTitles: itemTitles
    cursorPending,    \* a cursor page request is in flight
    \* the outside world
    file,             \* the output file
    stdout,           \* lines printed with console.log
    stderr,           \* lines printed with console.error
    ticker,           \* the progress line (overwritten in place)
    \* history of the run
    countRequests,    \* count queries dispatched
    restRequested,    \* REST page numbers, in dispatch order
    cursorRequested,  \* cursors, in dispatch order
    settleOrder,      \* REST page numbers, in completion order
    flagsSeen,        \* the hasNextPage flags the provider answered
    rmCount,          \* fs.rmSync calls
    prevOutput        \* the file as this run found it; what the run before it
                      \* printed and the order in which its pages completed

envVars    == <<variant, argc, probeFails, counts, repoIssues, repoDiscussions,
                repoOverlap, restFails, cursorFailAt>>
startVars  == <<keyFileRead, exitCode>>
restVars   == <<totalPages, pending, responses, issueTitles, restRequested,
                settleOrder>>
cursorVars == <<hasNextPage, cursor, page, estPages, itemTitles,
                cursorPending, cursorRequested, flagsSeen>>
outVars    == <<file, stdout, rmCount>>
vars == <<envVars, startVars, run, pc, repoStats, restVars, cursorVars, outVars,
          stderr, ticker, countRequests, prevOutput>>

-----------------------------------------------------------------------------
(* Bounds of the model *)

MaxRuns == 2
MaxCursorFail == 2

(* Program constants *)

issuesPerPage == 100
perPage == 100

Variants == {"functions", "classes", "stdout"}

\* the counts the count query may report: <<issues, pullRequests, discussions>>
ReportedCounts == {<<0, 0, 0>>, <<0, 50, 10>>, <<150, 50, 10>>, <<201, 50, 101>>}

\* what the two listings of the repository really hold when they are read (the
\* reported counts may be stale): <<issues + pull requests, discussions, records
\* a REST page repeats from the page before it>>
Repositories == {<<0, 0, 0>>, <<200, 10, 0>>, <<201, 101, 1>>}

\* the numbers of positional arguments an invocation may give
ArgCounts == 0..4

Null == 0
Undefined == [defined |-> FALSE, issues |-> 0, pullRequests |-> 0, discussions |-> 0]
NoFile == [exists |-> FALSE, lines |-> <<>>]

Min(a, b) == IF a < b THEN a ELSE b

-----------------------------------------------------------------------------
(* Pure helpers *)

\* Math.ceil(n / d) for integers n >= 0, d > 0
MathCeil(n, d) == IF n % d = 0 THEN n \div d ELSE (n \div d) + 1

\* (mutation of TotalPages: the division rounds down)
TotalPagesFloor(limit) == limit \div issuesPerPage

\* Math.ceil(totalIssues / issuesPerPage)
TotalPages(limit) == MathCeil(limit, issuesPerPage)

\* Math.ceil(totalCount / perPage)
EstimatedPages(limit) == MathCeil(limit, perPage)

\* `${item.number},${item.title}`
TitleLine(item) == ToString(item.number) \o "," \o item.title

MapLines(items) == [k \in 1..Len(items) |-> TitleLine(items[k])]

-----------------------------------------------------------------------------
(* The provider *)

\* octokit.issues.listForRepo({per_page, page}): the page-th block of the listing
ListForRepo(p) ==
    LET first == (p - 1) * (issuesPerPage - repoOverlap)
        n == IF repoIssues > first THEN Min(issuesPerPage, repoIssues - first) ELSE 0
    IN [k \in 1..n |-> [number |-> first + k, title |-> "issue"]]

\* graphql discussions(first: perPage, after: cursor)
DiscussionsPage(after) ==
    LET n == IF repoDiscussions > after THEN Min(perPage, repoDiscussions - after) ELSE 0
    IN [edges |-> [k \in 1..n |-> [number |-> repoIssues + after + k, title |-> "discussion"]],
        hasNextPage |-> after + n < repoDiscussions,
        endCursor |-> IF n = 0 THEN Null ELSE after + n]


-----------------------------------------------------------------------------
(* The code between the suspension points *)

outputFile == "out.csv"

\* if (process.argv.length < 6) / if (process.argv.length < 5)
\* (mutation of RequiredArgs: every script accepts three arguments)
RequiredArgsAlwaysThree(v) == 3

RequiredArgs(v) == IF v = "stdout" THEN 3 ELSE 4

\* console.log('Usage: node ' + process.argv[1] + ' <user-or-organisation> ...')
UsageLine(v) ==
    "Usage: node script <user-or-organisation> <repo> <personal-access-token-file>"
    \o (IF v = "stdout" THEN "" ELSE " <output-file>")

\* (mutation of fetchRepoStats: the catch block returns zero counts)
fetchRepoStatsDefaultCounts(failed) ==
    [defined |-> TRUE,
     issues |-> IF failed THEN 0 ELSE counts.issues,
     pullRequests |-> IF failed THEN 0 ELSE counts.pullRequests,
     discussions |-> IF failed THEN 0 ELSE counts.discussions]

\* fetchRepoStats / ItemCountFetcher.fetch: the counts, or undefined after the catch
fetchRepoStats(failed) ==
    IF failed THEN Undefined
    ELSE [defined |-> TRUE, issues |-> counts.issues,
          pullRequests |-> counts.pullRequests, discussions |-> counts.discussions]

\* const pageNrList = Array.from({length: totalPages}, (_, i) => i + 1)
pageNrList(n) == [i \in 1..n |-> i]

\* (mutation of allSettled: the results come in the order of completion)
allSettledInCompletionOrder(resp, order) == [i \in 1..Len(order) |-> resp[order[i]]]

\* Promise.allSettled(promises): one result per promise, in the order of the promises
allSettled(resp, order) == [i \in 1..Len(order) |-> resp[i]]

\* (mutation of collectTitles: a title already collected is not pushed again)
RECURSIVE collectDistinctFrom(_, _)
collectDistinctFrom(acc, results) ==
    IF results = <<>> THEN acc
    ELSE LET seen == {acc[i] : i \in DOMAIN acc}
             fresh(l) == l \notin seen
             titles == IF Head(results).status = "fulfilled"
                       THEN SelectSeq(MapLines(Head(results).data), fresh)
                       ELSE <<>>
         IN collectDistinctFrom(acc \o titles, Tail(results))

collectTitlesDistinct(results) == collectDistinctFrom(<<>>, results)

\* (mutation of collectTitles: the first rejected page ends the collection)
RECURSIVE collectTitlesUntilRejected(_)
collectTitlesUntilRejected(results) ==
    IF results = <<>> \/ Head(results).status # "fulfilled" THEN <<>>
    ELSE MapLines(Head(results).data) \o collectTitlesUntilRejected(Tail(results))

\* responses.forEach, the fulfilled branch: the titles pushed
RECURSIVE collectTitles(_)
collectTitles(results) ==
    IF results = <<>> THEN <<>>
    ELSE (IF Head(results).status = "fulfilled" THEN MapLines(Head(results).data) ELSE <<>>)
         \o collectTitles(Tail(results))

\* responses.forEach, the else branch: console.error('Error:', response.reason)
RECURSIVE collectErrors(_)
collectErrors(results) ==
    IF results = <<>> THEN <<>>
    ELSE (IF Head(results).status = "fulfilled" THEN <<>>
          ELSE <<"Error: " \o Head(results).reason>>)
         \o collectErrors(Tail(results))

\* (mutation of LoopCondition: the estimated page count bounds the loop)
LoopConditionBounded(hasNext, pg, est) == hasNext /\ pg <= est

\* while (hasNextPage)
LoopCondition(hasNext, pg, est) == hasNext

\* the order in which the write phase visits the fetched titles:
\* Object.entries(titles) (insertion order) / [...rest, ...graphql]
OutputTitles(v, issues, discussions) ==
    IF v = "functions" THEN discussions \o issues ELSE issues \o discussions

\* the final console.log
Summary(v, issues, discussions) ==
    IF v = "functions"
    THEN "Written " \o ToString(Len(issues)) \o " issue/pull request and "
         \o ToString(Len(discussions)) \o " discussion titles to " \o outputFile
    ELSE "Written " \o ToString(Len(issues) + Len(discussions)) \o " titles to "
         \o (IF argc >= 4 THEN outputFile ELSE "undefined")

RestTicker(p, n) ==
    "Fetching issues/pull requests page " \o ToString(p) \o "/" \o ToString(n)

CursorTicker(p, n) ==
    "Fetching discussions page " \o ToString(p) \o "/" \o ToString(n)

Unsettled == [status |-> "pending", data |-> <<>>, reason |-> ""]

\* fetchIssueTitles / RESTTitleFetcher.fetch up to `await Promise.allSettled`
BeginRest(limit) ==
    LET n == TotalPages(limit) IN
    /\ totalPages' = n
    /\ pending' = 1..n
    /\ responses' = [p \in 1..n |-> Unsettled]
    /\ restRequested' = pageNrList(n)
    /\ settleOrder' = <<>>
    /\ issueTitles' = <<>>
    /\ ticker' = IF n > 0 THEN RestTicker(n, n) ELSE ticker
    /\ pc' = "awaitRest"

\* fetchItemTitles / GraphQLTitleFetcher.fetch up to the first `await graphql`
BeginCursor(limit) ==
    LET est == EstimatedPages(limit) IN
    /\ hasNextPage' = TRUE
    /\ cursor' = Null
    /\ page' = 1
    /\ estPages' = est
    /\ itemTitles' = <<>>
    /\ flagsSeen' = <<>>
    /\ IF LoopCondition(TRUE, 1, est)
       THEN /\ cursorRequested' = <<Null>>
            /\ cursorPending' = TRUE
            /\ ticker' = CursorTicker(1, est)
            /\ pc' = "awaitCursor"
       ELSE /\ cursorRequested' = <<>>
            /\ cursorPending' = FALSE
            /\ ticker' = ticker
            /\ pc' = "cursorDone"

-----------------------------------------------------------------------------
(* Initial states *)

Init ==
    /\ variant \in Variants
    /\ argc \in ArgCounts
    /\ probeFails \in (IF argc = RequiredArgs(variant) THEN BOOLEAN ELSE {FALSE})
    /\ \E c \in (IF probeFails \/ argc # RequiredArgs(variant)
                 THEN {<<0, 0, 0>>} ELSE ReportedCounts) :
          counts = [issues |-> c[1], pullRequests |-> c[2], discussions |-> c[3]]
    /\ \E r \in (IF probeFails \/ argc # RequiredArgs(variant)
                 THEN {<<0, 0, 0>>} ELSE Repositories) :
          /\ repoIssues = r[1]
          /\ repoDiscussions = r[2]
          /\ repoOverlap = r[3]
    /\ restFails \in SUBSET (1..TotalPages(counts.issues + counts.pullRequests))
    /\ cursorFailAt \in (IF probeFails \/ argc # RequiredArgs(variant)
                         THEN {0} ELSE 0..MaxCursorFail)
    /\ run = 1
    /\ pc = "start"
    /\ keyFileRead = FALSE
    /\ exitCode = 0
    /\ repoStats = Undefined
    /\ totalPages = 0
    /\ pending = {}
    /\ responses = <<>>
    /\ issueTitles = <<>>
    /\ hasNextPage = TRUE
    /\ cursor = Null
    /\ page = 1
    /\ estPages = 0
    /\ itemTitles = <<>>
    /\ cursorPending = FALSE
    /\ file \in {NoFile, [exists |-> TRUE, lines |-> <<"0,stale">>]}
    /\ stdout = <<>>
    /\ stderr = <<>>
    /\ ticker = ""
    /\ countRequests = 0
    /\ restRequested = <<>>
    /\ cursorRequested = <<>>
    /\ settleOrder = <<>>
    /\ flagsSeen = <<>>
    /\ rmCount = 0
    /\ prevOutput = [file |-> file, stdout |-> <<>>, order |-> <<>>]

-----------------------------------------------------------------------------
(* Actions *)

\* the argument check fails: the usage message and process.exit(1)
UsageExit ==
    /\ pc = "start"
    /\ argc < RequiredArgs(variant)
    /\ stdout' = Append(stdout, UsageLine(variant))
    /\ exitCode' = 1
    /\ pc' = "usage"
    /\ UNCHANGED <<envVars, keyFileRead, run, repoStats, restVars, cursorVars,
                   stderr, ticker, countRequests, prevOutput>>

\* the top-level code up to `await fetchRepoStats(owner, repo)`: the argument
\* check passes, the token file is read, the count query is dispatched
StartCountQuery ==
    /\ pc = "start"
    /\ argc >= RequiredArgs(variant)
    /\ keyFileRead' = TRUE
    /\ countRequests' = countRequests + 1
    /\ pc' = "awaitStats"
    /\ UNCHANGED <<envVars, exitCode, run, repoStats, restVars, cursorVars, stdout,
                   stderr, ticker, prevOutput>>

\* (mutation of Main: the output file is removed when the run starts)
MainRemovingOutput ==
    /\ StartCountQuery
    /\ file' = IF variant = "stdout" THEN file ELSE NoFile
    /\ rmCount' = IF variant = "stdout" THEN rmCount ELSE rmCount + 1

Main ==
    /\ IF argc < RequiredArgs(variant) THEN UsageExit ELSE StartCountQuery
    /\ UNCHANGED <<file, rmCount>>

\* the count query settles: fetchRepoStats returns the counts or logs and
\* returns undefined
StatsResponse ==
    /\ pc = "awaitStats"
    /\ repoStats' = fetchRepoStats(probeFails)
    /\ stderr' = IF probeFails
                 THEN Append(stderr, "Error fetching repository stats: rejected")
                 ELSE stderr
    /\ pc' = "haveStats"
    /\ UNCHANGED <<envVars, startVars, run, restVars, cursorVars, outVars, ticker,
                   countRequests, prevOutput>>

\* (mutation of UseStats: both fetchers are called without awaiting the first)
UseStatsStartsBoth ==
    /\ pc = "haveStats"
    /\ IF ~repoStats.defined
       THEN /\ pc' = "crashed"
            /\ UNCHANGED <<restVars, cursorVars, ticker>>
       ELSE /\ BeginRest(repoStats.issues + repoStats.pullRequests)
            /\ hasNextPage' = TRUE
            /\ cursor' = Null
            /\ page' = 1
            /\ estPages' = EstimatedPages(repoStats.discussions)
            /\ itemTitles' = <<>>
            /\ flagsSeen' = <<>>
            /\ cursorRequested' = <<Null>>
            /\ cursorPending' = TRUE
    /\ UNCHANGED <<envVars, startVars, run, repoStats, outVars, stderr, countRequests,
                   prevOutput>>

\* the top-level code after `await fetchRepoStats`: the first use of the counts
\* and the call of the first fetcher
UseStats ==
    /\ pc = "haveStats"
    /\ IF ~repoStats.defined
       THEN \* TypeError: cannot read properties of undefined
            /\ pc' = "crashed"
            /\ UNCHANGED <<restVars, cursorVars, ticker>>
       ELSE IF variant = "functions"
            THEN /\ BeginCursor(repoStats.discussions)
                 /\ UNCHANGED restVars
            ELSE /\ BeginRest(repoStats.issues + repoStats.pullRequests)
                 /\ UNCHANGED cursorVars
    /\ UNCHANGED <<envVars, startVars, run, repoStats, outVars, stderr, countRequests,
                   prevOutput>>

\* one REST page request settles
RestSettle(p) ==
    /\ pc = "awaitRest"
    /\ p \in pending
    /\ pending' = pending \ {p}
    /\ responses' = [responses EXCEPT ![p] =
           IF p \in restFails
           THEN [status |-> "rejected", data |-> <<>>, reason |-> "page " \o ToString(p)]
           ELSE [status |-> "fulfilled", data |-> ListForRepo(p), reason |-> ""]]
    /\ settleOrder' = Append(settleOrder, p)
    /\ UNCHANGED <<envVars, startVars, run, pc, repoStats, totalPages, issueTitles,
                   restRequested, cursorVars, outVars, stderr, ticker,
                   countRequests, prevOutput>>

\* (mutation of RestCollect: the results are consumed without waiting for
\* every request to settle)
RestCollectEarly ==
    /\ pc = "awaitRest"
    /\ LET results == allSettled(responses, [i \in 1..totalPages |-> i]) IN
       /\ issueTitles' = collectTitles(results)
       /\ stderr' = stderr \o collectErrors(results)
    /\ pc' = "restDone"
    /\ UNCHANGED <<envVars, startVars, run, repoStats, totalPages, pending, responses,
                   restRequested, settleOrder, cursorVars, outVars, ticker,
                   countRequests, prevOutput>>

\* Promise.allSettled resolves; responses.forEach; return
RestCollect ==
    /\ pc = "awaitRest"
    /\ pending = {}
    /\ LET results == allSettled(responses, settleOrder) IN
       /\ issueTitles' = collectTitles(results)
       /\ stderr' = stderr \o collectErrors(results)
    /\ pc' = "restDone"
    /\ UNCHANGED <<envVars, startVars, run, repoStats, totalPages, pending, responses,
                   restRequested, settleOrder, cursorVars, outVars, ticker,
                   countRequests, prevOutput>>

\* the caller after the REST fetch returned
AfterRest ==
    /\ pc = "restDone"
    /\ IF variant = "functions"
       THEN /\ pc' = "write"
            /\ UNCHANGED <<cursorVars, ticker>>
       ELSE BeginCursor(repoStats.discussions)
    /\ UNCHANGED <<envVars, startVars, run, repoStats, restVars, outVars, stderr,
                   countRequests, prevOutput>>

\* (mutation of CursorRejected: the rejected request is sent again)
CursorRejectedRetries ==
    /\ pc' = "awaitCursor"
    /\ cursorPending' = TRUE
    /\ cursorRequested' = Append(cursorRequested, cursor)
    /\ UNCHANGED <<hasNextPage, cursor, page, estPages, itemTitles, flagsSeen, ticker>>

\* (mutation of CursorRejected: the rejection is caught and the titles fetched
\* so far are returned)
CursorRejectedKeepsPartial ==
    /\ pc' = "cursorDone"
    /\ cursorPending' = FALSE
    /\ UNCHANGED <<hasNextPage, cursor, page, estPages, itemTitles,
                   cursorRequested, flagsSeen, ticker>>

\* `await graphql` throws: the rejection propagates to the top level
CursorRejected ==
    /\ pc' = "crashed"
    /\ cursorPending' = FALSE
    /\ UNCHANGED <<hasNextPage, cursor, page, estPages, itemTitles,
                   cursorRequested, flagsSeen, ticker>>

\* (mutation of CursorFulfilled: the next request repeats the cursor of the
\* request just answered)
CursorFulfilledStaleCursor ==
    LET response == DiscussionsPage(cursor)
        again == LoopCondition(response.hasNextPage, page + 1, estPages)
    IN
    /\ itemTitles' = itemTitles \o MapLines(response.edges)
    /\ hasNextPage' = response.hasNextPage
    /\ cursor' = response.endCursor
    /\ flagsSeen' = Append(flagsSeen, response.hasNextPage)
    /\ page' = page + 1
    /\ estPages' = estPages
    /\ cursorPending' = again
    /\ cursorRequested' = IF again THEN Append(cursorRequested, cursor)
                          ELSE cursorRequested
    /\ ticker' = IF again THEN CursorTicker(page', estPages) ELSE ticker
    /\ pc' = IF again THEN "awaitCursor" ELSE "cursorDone"

\* `if (hasNextPage) { push; hasNextPage = ...; cursor = ... } page++`, the
\* loop test and either the next request or the return
CursorFulfilled ==
    LET response == DiscussionsPage(cursor)
        again == LoopCondition(response.hasNextPage, page + 1, estPages)
    IN
    /\ itemTitles' = itemTitles \o MapLines(response.edges)
    /\ hasNextPage' = response.hasNextPage
    /\ cursor' = response.endCursor
    /\ flagsSeen' = Append(flagsSeen, response.hasNextPage)
    /\ page' = page + 1
    /\ estPages' = estPages
    /\ cursorPending' = again
    /\ cursorRequested' = IF again THEN Append(cursorRequested, cursor')
                          ELSE cursorRequested
    /\ ticker' = IF again THEN CursorTicker(page', estPages) ELSE ticker
    /\ pc' = IF again THEN "awaitCursor" ELSE "cursorDone"

\* the cursor page request in flight settles
CursorResponse ==
    /\ pc = "awaitCursor"
    /\ cursorPending
    /\ IF Len(cursorRequested) = cursorFailAt
       THEN CursorRejected
       ELSE CursorFulfilled
    /\ UNCHANGED <<envVars, startVars, run, repoStats, restVars, outVars, stderr,
                   countRequests, prevOutput>>

\* the caller after the cursor fetch returned
AfterCursor ==
    /\ pc = "cursorDone"
    /\ IF variant = "functions"
       THEN BeginRest(repoStats.issues + repoStats.pullRequests)
       ELSE /\ pc' = "write"
            /\ UNCHANGED <<restVars, ticker>>
    /\ UNCHANGED <<envVars, startVars, run, repoStats, cursorVars, outVars, stderr,
                   countRequests, prevOutput>>

\* (mutation of Write: the file is appended to without being removed first)
WriteAppending ==
    /\ pc = "write"
    /\ LET lines == OutputTitles(variant, issueTitles, itemTitles)
           last == Summary(variant, issueTitles, itemTitles)
       IN IF variant = "stdout"
          THEN /\ stdout' = (stdout \o lines) \o <<last>>
               /\ UNCHANGED <<file, rmCount>>
          ELSE /\ file' = [exists |-> file.exists \/ lines # <<>>,
                           lines |-> file.lines \o lines]
               /\ rmCount' = rmCount
               /\ stdout' = Append(stdout, last)
    /\ pc' = "done"
    /\ UNCHANGED <<envVars, startVars, run, repoStats, restVars, cursorVars, stderr,
                   ticker, countRequests, prevOutput>>

\* the write phase: fs.rmSync, one fs.appendFileSync per title (or one
\* console.log per item), the final console.log
Write ==
    /\ pc = "write"
    /\ LET lines == OutputTitles(variant, issueTitles, itemTitles)
           last == Summary(variant, issueTitles, itemTitles)
       IN IF variant = "stdout"
          THEN /\ stdout' = (stdout \o lines) \o <<last>>
               /\ UNCHANGED <<file, rmCount>>
          ELSE /\ file' = [exists |-> lines # <<>>, lines |-> lines]
               /\ rmCount' = rmCount + 1
               /\ stdout' = Append(stdout, last)
    /\ pc' = "done"
    /\ UNCHANGED <<envVars, startVars, run, repoStats, restVars, cursorVars, stderr,
                   ticker, countRequests, prevOutput>>

\* the script is invoked again on the same repository
NextRun ==
    /\ pc \in {"done", "crashed"}
    /\ run < MaxRuns
    /\ run' = run + 1
    /\ prevOutput' = [file |-> file, stdout |-> stdout, order |-> settleOrder]
    /\ pc' = "start"
    /\ repoStats' = Undefined
    /\ totalPages' = 0
    /\ pending' = {}
    /\ responses' = <<>>
    /\ issueTitles' = <<>>
    /\ hasNextPage' = TRUE
    /\ cursor' = Null
    /\ page' = 1
    /\ estPages' = 0
    /\ itemTitles' = <<>>
    /\ cursorPending' = FALSE
    /\ stdout' = <<>>
    /\ stderr' = <<>>
    /\ ticker' = ""
    /\ countRequests' = 0
    /\ restRequested' = <<>>
    /\ cursorRequested' = <<>>
    /\ settleOrder' = <<>>
    /\ flagsSeen' = <<>>
    /\ rmCount' = 0
    /\ keyFileRead' = FALSE
    /\ exitCode' = 0
    /\ UNCHANGED <<envVars, file>>

\* the steps of one run
RunStep ==
    \/ Main
    \/ StatsResponse
    \/ UseStats
    \/ \E p \in pending : RestSettle(p)
    \/ RestCollect
    \/ AfterRest
    \/ CursorResponse
    \/ AfterCursor
    \/ Write

Next ==
    \/ RunStep
    \/ NextRun

Spec == Init /\ [][Next]_vars

\* the provider answers every request in flight and the event loop runs every
\* continuation that is ready
FairSpec == Spec /\ WF_vars(RunStep)

-----------------------------------------------------------------------------
(* Vocabulary of the properties *)

Range(f) == {f[x] : x \in DOMAIN f}

\* the record lines the run has written to its output destination
Output ==
    IF variant = "stdout"
    THEN (IF pc = "done" THEN SubSeq(stdout, 1, Len(stdout) - 1) ELSE stdout)
    ELSE file.lines

IssueLineSet ==
    {TitleLine([number |-> k, title |-> "issue"]) : k \in 1..repoIssues}

DiscussionLineSet ==
    {TitleLine([number |-> repoIssues + k, title |-> "discussion"]) :
        k \in 1..repoDiscussions}

\* no line of `second` is followed by a line of `first`
GroupsInOrder(ls, first, second) ==
    LET inSecond == {a \in DOMAIN ls : ls[a] \in second}
        inFirst == {b \in DOMAIN ls : ls[b] \in first}
        firstOfSecond == CHOOSE a \in inSecond : \A c \in inSecond : a <= c
    IN inSecond = {} \/ \A b \in inFirst : b < firstOfSecond

\* the limit the REST fetch is called with
RestLimit == repoStats.issues + repoStats.pullRequests

\* the REST fetch has dispatched its requests / has returned
RestStarted ==
    \/ pc \in {"awaitRest", "restDone", "write", "done"}
    \/ variant # "functions" /\ pc \in {"awaitCursor", "cursorDone"}
    \/ variant # "functions" /\ pc = "crashed" /\ repoStats.defined

RestReturned == RestStarted /\ pc # "awaitRest"

\* the cursor fetch has returned to its caller
CursorReturned ==
    \/ pc \in {"cursorDone", "write", "done"}
    \/ variant = "functions" /\ pc \in {"awaitRest", "restDone"}

PageLines(p) == {TitleLine(x) : x \in Range(ListForRepo(p))}

\* the number of records the provider returns on the given pages together
RECURSIVE RecordsOf(_)
RecordsOf(pages) ==
    IF pages = {} THEN 0
    ELSE LET p == CHOOSE x \in pages : TRUE
         IN Len(ListForRepo(p)) + RecordsOf(pages \ {p})

ErrorLine(p) == "Error: page " \o ToString(p)

Occurrences(seq, x) == Cardinality({k \in DOMAIN seq : seq[k] = x})

-----------------------------------------------------------------------------
(* C1: in every run that reaches the write phase, every issue/pull-request   *)
(* record is written before every discussion record, in each script variant. *)
C1_IssuesBeforeDiscussions ==
    pc = "done" => GroupsInOrder(Output, IssueLineSet, DiscussionLineSet)

(* C2: for every totalItemCount >= 0 the REST fetch dispatches exactly       *)
(* ceil(totalItemCount / 100) page requests, one per page number             *)
(* 1..totalPages and none outside; for 0 it dispatches none and returns an   *)
(* empty sequence.                                                           *)
C2_PageRequests ==
    RestStarted =>
        LET n == Len(restRequested) IN
        /\ n * issuesPerPage >= RestLimit
        /\ n > 0 => (n - 1) * issuesPerPage < RestLimit
        /\ \A k \in 1..n : restRequested[k] = k
        /\ Cardinality(pending) + Len(settleOrder) = n
        /\ RestLimit = 0 => restRequested = <<>> /\ issueTitles = <<>>

C2_Witness ==
    /\ pc = "restDone"
    /\ RestLimit = 251
    /\ restRequested = <<1, 2, 3>>

(* C3: for any subset F of the pages of the REST fetch that fail, the fetch  *)
(* still returns and aborts neither the sibling pages nor the run; what it   *)
(* returns holds exactly the records of the succeeded pages; each failed     *)
(* page's cause is logged exactly once.                                      *)
C3_FailedPagesIsolated ==
    /\ RestReturned =>
          LET succeeded == (1..totalPages) \ restFails
              expected == UNION {PageLines(p) : p \in succeeded}
          IN /\ Range(issueTitles) = expected
             /\ Len(issueTitles) = RecordsOf(succeeded)
             /\ \A p \in 1..totalPages :
                   Occurrences(stderr, ErrorLine(p)) = IF p \in restFails THEN 1 ELSE 0
    /\ pc = "crashed" =>
          \/ ~repoStats.defined
          \/ cursorFailAt > 0 /\ Len(cursorRequested) = cursorFailAt
    /\ pc = "awaitRest" /\ pending = {} => ENABLED RestCollect

C3_Witness ==
    /\ pc = "done"
    /\ totalPages = 3
    /\ restFails = {2}
    /\ repoIssues = 201
    /\ Len(issueTitles) = 103
    /\ Occurrences(stderr, ErrorLine(2)) = 1

\* the number of cursor requests a client following the cursors needs until the
\* provider answers hasNextPage = false
RECURSIVE PagesToExhaust(_, _)
PagesToExhaust(after, n) ==
    LET r == DiscussionsPage(after)
    IN IF r.hasNextPage THEN PagesToExhaust(r.endCursor, n + 1) ELSE n

C4_ExactlyK ==
    /\ Len(cursorRequested) <= PagesToExhaust(Null, 1)
    /\ CursorReturned =>
          LET k == Len(cursorRequested) IN
          /\ k = PagesToExhaust(Null, 1)
          /\ Len(flagsSeen) = k
          /\ ~flagsSeen[k]
          /\ \A j \in 1..(k - 1) : flagsSeen[j]

(* C4: the cursor fetch terminates after exactly k page requests, k the      *)
(* index of the first response whose hasNextPage is false, whatever the      *)
(* totalItemCount estimate; with such a response coming, the fetch           *)
(* eventually completes.                                                     *)
C4_CursorTermination ==
    /\ []C4_ExactlyK
    /\ (pc = "awaitCursor" /\ cursorFailAt = 0) ~> CursorReturned

C4_Witness ==
    /\ CursorReturned
    /\ estPages = 1
    /\ Len(cursorRequested) = 2
    /\ flagsSeen = <<TRUE, FALSE>>

\* a cursor page request has been rejected
CursorRequestFailed ==
    /\ cursorFailAt > 0
    /\ Len(cursorRequested) = cursorFailAt
    /\ ~cursorPending

(* C5: if any page request of the cursor fetch fails, the failure reaches    *)
(* the top level, no further cursor request is issued, and no record (also   *)
(* none of the discussion pages already fetched) reaches the output: the     *)
(* run ends without a write phase.                                           *)
C5_CursorFailureAborts ==
    /\ cursorFailAt > 0 => Len(cursorRequested) <= cursorFailAt
    /\ CursorRequestFailed =>
          /\ pc = "crashed"
          /\ rmCount = 0
          /\ file = prevOutput.file
          /\ stdout = <<>>

C5_Witness ==
    /\ pc = "crashed"
    /\ variant = "classes"
    /\ cursorFailAt = 2
    /\ Len(itemTitles) = 100
    /\ issueTitles # <<>>

StatsErrorLine == "Error fetching repository stats: rejected"

(* C6: when the count query fails, the error is logged, the probe returns    *)
(* undefined without a retry, and the run stops with a type error at the     *)
(* first use of the counts: no REST page request, no cursor page request,    *)
(* nothing written.                                                          *)
C6_ProbeFailureStopsRun ==
    (probeFails /\ pc \notin {"start", "awaitStats"}) =>
        /\ pc \in {"haveStats", "crashed"}
        /\ ~repoStats.defined
        /\ countRequests = 1
        /\ Occurrences(stderr, StatsErrorLine) = 1
        /\ restRequested = <<>>
        /\ cursorRequested = <<>>
        /\ rmCount = 0
        /\ file = prevOutput.file
        /\ stdout = <<>>

C6_Witness ==
    /\ pc = "crashed"
    /\ probeFails
    /\ file.exists
    /\ stderr = <<StatsErrorLine>>

(* C7: on an unchanging repository (same counts, same page contents, same    *)
(* per-request outcomes) two successive runs produce byte-identical output,  *)
(* whatever the completion orders of the REST page requests in the two runs. *)
C7_SuccessiveRunsAgree ==
    (run > 1 /\ pc = "done") =>
        /\ file = prevOutput.file
        /\ stdout = prevOutput.stdout

C7_Witness ==
    /\ run = 2
    /\ pc = "done"
    /\ repoIssues = 201
    /\ restFails = {}
    /\ prevOutput.order = <<1, 2, 3>>
    /\ settleOrder = <<3, 2, 1>>
    /\ Len(Output) > 201

\* the lines of the issue/pull-request group of the output, in output order
IssueGroup(ls) ==
    LET issueLines == IssueLineSet
        keep(l) == l \in issueLines
    IN SelectSeq(ls, keep)

\* the records of page p as lines, in the order the provider returned them
PageBlock(p) ==
    IF p \in restFails THEN <<>>
    ELSE [k \in 1..Len(ListForRepo(p)) |-> TitleLine(ListForRepo(p)[k])]

\* the blocks of the pages, one after the other in the given order of pages
RECURSIVE Blocks(_)
Blocks(order) ==
    IF order = <<>> THEN <<>> ELSE PageBlock(Head(order)) \o Blocks(Tail(order))

(* C8 as stated: within the issue/pull-request group the blocks of the pages *)
(* appear in the output in the order in which the page requests completed.   *)
C8_CompletionOrder ==
    pc = "done" => IssueGroup(Output) = Blocks(settleOrder)

(* C8: within the issue/pull-request group the blocks of the pages appear in *)
(* the output in page-number order, whatever the order in which the page     *)
(* requests completed; within one page the provider's order is kept.         *)
C8_PageNumberOrder ==
    pc = "done" => IssueGroup(Output) = Blocks([i \in 1..totalPages |-> i])

C8_Witness ==
    /\ pc = "done"
    /\ repoIssues = 200
    /\ restFails = {}
    /\ settleOrder = <<2, 1>>
    /\ Len(IssueGroup(Output)) = 200

(* C9 as stated: the output file is deleted at run start, before the count   *)
(* query and any page request, and the records of a page are appended when   *)
(* that page's response arrives.                                             *)
C9_RemovedAtStart ==
    variant # "stdout" =>
        /\ pc \notin {"start", "usage"} => rmCount >= 1
        /\ \A p \in DOMAIN responses :
              responses[p].status = "fulfilled" => PageLines(p) \subseteq Range(file.lines)

(* C9: the output file is deleted and rewritten once, in the write phase at  *)
(* the end of the run, after the count query and every page request have     *)
(* settled; until then the file is as the run found it, and all records are  *)
(* appended in that one pass.                                                *)
C9_RemovedInWritePhase ==
    variant # "stdout" =>
        /\ pc # "done" => rmCount = 0 /\ file = prevOutput.file
        /\ pc = "done" =>
              /\ rmCount = 1
              /\ countRequests = 1
              /\ pending = {}
              /\ ~cursorPending
              /\ Len(file.lines) = Len(issueTitles) + Len(itemTitles)
              /\ file.exists = (file.lines # <<>>)

C9_Witness ==
    /\ variant # "stdout"
    /\ pc = "awaitRest"
    /\ \E p \in DOMAIN responses :
          responses[p].status = "fulfilled" /\ responses[p].data # <<>>
    /\ file.exists
    /\ file = prevOutput.file
    /\ rmCount = 0

\* the listings hold no more than the counts report
ProviderMatchesCounts ==
    /\ repoIssues <= counts.issues + counts.pullRequests
    /\ repoDiscussions <= counts.discussions
    /\ PagesToExhaust(Null, 1) = EstimatedPages(counts.discussions)

(* C10: with counts (i, p, d) the REST fetch is called with i + p and        *)
(* dispatches ceil((i + p) / 100) pages; with a provider in step with the    *)
(* counts the output has at most i + p + d lines, the issue/pull-request     *)
(* block first and the discussion block second.                              *)
C10_EndToEnd ==
    /\ RestStarted =>
          /\ RestLimit = counts.issues + counts.pullRequests
          /\ Len(restRequested) = MathCeil(counts.issues + counts.pullRequests, 100)
    /\ (pc = "done" /\ ProviderMatchesCounts) =>
          /\ Len(cursorRequested) = MathCeil(counts.discussions, 100)
          /\ Len(Output) <= counts.issues + counts.pullRequests + counts.discussions
          /\ \E k \in 0..Len(Output) :
                /\ \A a \in 1..k : Output[a] \notin DiscussionLineSet
                /\ \A b \in (k + 1)..Len(Output) : Output[b] \notin IssueLineSet

\* the count query reports all-zero counts, the discussion listing is empty and
\* no request fails
AllZeroRun ==
    /\ argc >= (IF variant = "stdout" THEN 3 ELSE 4)
    /\ ~probeFails
    /\ counts = [issues |-> 0, pullRequests |-> 0, discussions |-> 0]
    /\ repoDiscussions = 0
    /\ cursorFailAt = 0

\* the final message of a run that wrote no record
ZeroSummary ==
    IF variant = "functions"
    THEN "Written 0 issue/pull request and 0 discussion titles to out.csv"
    ELSE IF argc >= 4 THEN "Written 0 titles to out.csv"
    ELSE "Written 0 titles to undefined"

C11_ZeroOutput ==
    AllZeroRun =>
        /\ pc \notin {"crashed", "usage"}
        /\ restRequested = <<>>
        /\ pc = "done" =>
              /\ Output = <<>>
              /\ variant # "stdout" => ~file.exists /\ file.lines = <<>>
              /\ stdout # <<>>
              /\ stdout[Len(stdout)] = ZeroSummary

(* C11: a run on a repository reporting all-zero counts, with an empty       *)
(* discussion listing, completes successfully, produces an output of zero    *)
(* lines and prints a final message reporting 0 records written.             *)
C11_AllZeroRun ==
    /\ []C11_ZeroOutput
    /\ (AllZeroRun /\ pc = "start") ~> (pc = "done")

C11_Witness ==
    /\ AllZeroRun
    /\ pc = "done"
    /\ variant = "classes"
    /\ prevOutput.file.exists
    /\ ~file.exists
    /\ stdout = <<"Written 0 titles to out.csv">>

\* fewer positional arguments than the script requires
TooFewArguments == argc < (IF variant = "stdout" THEN 3 ELSE 4)

RECURSIVE CursorPages(_)
CursorPages(k) ==
    IF k = 0 THEN <<>>
    ELSE CursorPages(k - 1) \o MapLines(DiscussionsPage(cursorRequested[k]).edges)

(* C13: the cursor fetch is strictly sequential: at most one cursor request  *)
(* is in flight, the first request carries the null cursor, request k+1 is   *)
(* dispatched only after the response to request k arrived and carries       *)
(* exactly the endCursor of that response, and the records of page k precede *)
(* the records of page k+1 in the result.                                    *)
C13_CursorSequential ==
    LET sent == Len(cursorRequested)
        answered == Len(flagsSeen) + (IF CursorRequestFailed THEN 1 ELSE 0)
    IN
    /\ sent = answered + (IF cursorPending THEN 1 ELSE 0)
    /\ sent > 0 => cursorRequested[1] = Null
    /\ \A k \in 1..(sent - 1) :
          /\ k <= Len(flagsSeen)
          /\ flagsSeen[k]
          /\ cursorRequested[k + 1] = DiscussionsPage(cursorRequested[k]).endCursor
    /\ pc # "crashed" => itemTitles = CursorPages(Len(flagsSeen))

C13_Witness ==
    /\ pc = "cursorDone"
    /\ cursorRequested = <<Null, 100>>
    /\ flagsSeen = <<TRUE, FALSE>>
    /\ Len(itemTitles) = 101
    /\ itemTitles[100] # itemTitles[101]

\* a result of the REST fetch has been consumed: a title pushed or an error logged
RestResultConsumed ==
    \/ issueTitles # <<>>
    \/ \E p \in 1..totalPages : Occurrences(stderr, ErrorLine(p)) > 0
    \/ RestReturned

(* C14: the REST fetch dispatches all totalPages page requests before any    *)
(* result is consumed, and no result is processed until every dispatched     *)
(* request has settled.                                                      *)
C14_AllDispatchedThenAllSettled ==
    /\ RestStarted =>
          /\ totalPages = MathCeil(RestLimit, 100)
          /\ restRequested = [i \in 1..totalPages |-> i]
    /\ pending # {} =>
          /\ pc = "awaitRest"
          /\ ~RestResultConsumed
    /\ RestResultConsumed =>
          /\ pending = {}
          /\ Range(settleOrder) = 1..totalPages
          /\ \A p \in 1..totalPages : responses[p].status \in {"fulfilled", "rejected"}

C14_Witness ==
    /\ pc = "awaitRest"
    /\ restRequested = <<1, 2, 3>>
    /\ settleOrder = <<2, 1>>
    /\ pending = {3}
    /\ responses[2].status = "fulfilled"
    /\ issueTitles = <<>>

NoDuplicates(seq) == \A i, j \in DOMAIN seq : seq[i] = seq[j] => i = j

(* C15: nothing is retried: within one run the count query is issued at most *)
(* once, each REST page number is requested at most once and each cursor     *)
(* value is requested at most once, also after a failure.                    *)
C15_NoRetry ==
    /\ countRequests <= 1
    /\ NoDuplicates(restRequested)
    /\ NoDuplicates(cursorRequested)
    /\ \A p \in restFails : Occurrences(restRequested, p) <= 1
    /\ (probeFails /\ pc = "crashed") => countRequests = 1
    /\ CursorRequestFailed =>
          Occurrences(cursorRequested, cursorRequested[cursorFailAt]) = 1

C15_Witness ==
    /\ pc = "crashed"
    /\ variant = "classes"
    /\ restFails = {2}
    /\ restRequested = <<1, 2, 3>>
    /\ Occurrences(stderr, ErrorLine(2)) = 1
    /\ cursorFailAt = 2
    /\ cursorRequested = <<Null, 100>>
    /\ countRequests = 1

\* the records returned by the succeeded REST pages / by the cursor pages, as
\* lines, each page once
RestRecords == Blocks([i \in 1..totalPages |-> i])
CursorRecords == CursorPages(Len(flagsSeen))

\* the final message for the given numbers of records of the two groups
WrittenMessage(nIssues, nDiscussions) ==
    IF variant = "functions"
    THEN "Written " \o ToString(nIssues) \o " issue/pull request and "
         \o ToString(nDiscussions) \o " discussion titles to out.csv"
    ELSE "Written " \o ToString(nIssues + nDiscussions) \o " titles to "
         \o (IF argc >= 4 THEN "out.csv" ELSE "undefined")

(* C16: in a successful run every record returned by a succeeded page (REST  *)
(* or cursor) is written exactly once, with no deduplication and no record   *)
(* that no page returned, and the record count printed in the final summary  *)
(* equals the number of record lines written.                                *)
C16_EveryRecordOnce ==
    pc = "done" =>
        LET rest == RestRecords
            items == CursorRecords
        IN
        /\ \/ Output = rest \o items
           \/ Output = items \o rest
        /\ stdout[Len(stdout)] = WrittenMessage(Len(rest), Len(items))
        /\ Len(Output) = Len(rest) + Len(items)

C16_Witness ==
    /\ pc = "done"
    /\ variant = "classes"
    /\ restFails = {3}
    /\ Occurrences(Output, "100,issue") = 2
    /\ Len(Output) = 301
    /\ stdout[Len(stdout)] = "Written 301 titles to out.csv"

\* the position in the REST result after which the records of page p start:
\* the number of records of the succeeded pages with a smaller page number
OffsetOf(p) == RecordsOf((1..(p - 1)) \ restFails)

(* C17: for every completion order of the concurrently dispatched REST page  *)
(* requests, the records of page i precede the records of page j in the      *)
(* result of the REST fetch whenever i < j and both pages succeeded.         *)
C17_ResultInPageOrder ==
    RestReturned =>
        \A p \in (1..totalPages) \ restFails :
            LET n == Len(ListForRepo(p))
                from == OffsetOf(p)
            IN /\ from + n <= Len(issueTitles)
               /\ \A k \in 1..n : issueTitles[from + k] = TitleLine(ListForRepo(p)[k])

C17_Witness ==
    /\ pc = "restDone"
    /\ settleOrder = <<3, 1, 2>>
    /\ restFails = {}
    /\ repoIssues = 201
    /\ issueTitles[1] = "1,issue"
    /\ issueTitles[101] = "100,issue"
    /\ issueTitles[Len(issueTitles)] = "201,issue"

\* the cursor fetch has been called
CursorStarted ==
    \/ pc \in {"awaitCursor", "cursorDone", "write", "done"}
    \/ variant = "functions" /\ pc \in {"awaitRest", "restDone"}
    \/ pc = "crashed" /\ repoStats.defined

\* no request of the one fetcher is in flight while a request of the other is
NoOverlap == ~(cursorPending /\ pending # {})

\* a fetcher dispatches its first request only when the other fetcher was not
\* called yet or has returned with all its requests settled
FirstDispatchAlone ==
    /\ (cursorRequested = <<>> /\ cursorRequested' # <<>>) =>
          /\ pending = {}
          /\ pending' = {}
          /\ RestStarted => RestReturned /\ Len(settleOrder) = totalPages
    /\ (restRequested = <<>> /\ restRequested' # <<>>) =>
          /\ ~cursorPending
          /\ ~cursorPending'
          /\ CursorStarted => CursorReturned

(* C18: the REST fetch and the cursor fetch never overlap: a cursor page     *)
(* request is never in flight while a REST page request is in flight, and    *)
(* one fetcher has fully completed before the other dispatches its first     *)
(* request.                                                                  *)
C18_FetchersNeverOverlap ==
    /\ []NoOverlap
    /\ [][FirstDispatchAlone]_vars

C18_Witness ==
    /\ variant = "classes"
    /\ pc = "awaitCursor"
    /\ cursorPending
    /\ cursorRequested = <<Null>>
    /\ restRequested = <<1, 2, 3>>
    /\ Len(settleOrder) = 3
    /\ pending = {}

\* a run that has aborted has left the output file as it found it
AbortedRunKeepsFile ==
    pc = "crashed" =>
        /\ file = prevOutput.file
        /\ rmCount = 0
        /\ ~repoStats.defined \/ CursorRequestFailed

\* within a run the output file changes only in the write phase, when the
\* counts are known and both fetchers have returned
FileChangesOnlyInWritePhase ==
    (run' = run /\ (file' # file \/ rmCount' # rmCount)) =>
        /\ pc = "write"
        /\ pc' = "done"
        /\ repoStats.defined
        /\ RestReturned /\ pending = {}
        /\ CursorReturned /\ ~cursorPending
        /\ rmCount' = rmCount + 1

(* C19: a run that aborts before the write phase (count probe failure        *)
(* leading to the type error, or a failed cursor page request) leaves a      *)
(* pre-existing output file unchanged: the file is removed and rewritten     *)
(* only after the count probe and both fetchers have completed.              *)
C19_AbortKeepsOutputFile ==
    /\ []AbortedRunKeepsFile
    /\ [][FileChangesOnlyInWritePhase]_vars

C19_Witness ==
    /\ pc = "crashed"
    /\ variant = "classes"
    /\ cursorFailAt = 2
    /\ Len(issueTitles) > 0
    /\ Len(itemTitles) = 100
    /\ file = [exists |-> TRUE, lines |-> <<"0,stale">>]

\* the number of pages of 100 the discussion listing really has
ListingPages == MathCeil(repoDiscussions, 100)

(* C20: the cursor fetch dispatches at least one page request in every       *)
(* invocation, also when the reported item count is 0 (estimated total pages *)
(* 0): the number of cursor requests is at least 1 and follows the listing,  *)
(* not the estimate ceil(totalItemCount / 100).                              *)
C20_AtLeastOneCursorRequest ==
    /\ CursorStarted =>
          /\ Len(cursorRequested) >= 1
          /\ estPages = MathCeil(repoStats.discussions, 100)
    /\ CursorReturned =>
          Len(cursorRequested) = (IF ListingPages = 0 THEN 1 ELSE ListingPages)

C20_Witness ==
    /\ pc = "cursorDone"
    /\ repoStats.discussions = 0
    /\ estPages = 0
    /\ repoDiscussions = 101
    /\ Len(cursorRequested) = 2
    /\ Len(itemTitles) = 101

=============================================================================
